---- MODULE Spec2Model ----
(***************************************************************************)
(* Change detection and update orchestration of hybrid-dev-beta.           *)
(*                                                                         *)
(* The repository holds several stand-alone scripts that do the same job   *)
(* in slightly different ways.  Each script (and each mode of a script) is *)
(* one "program"; a behaviour of this module is one execution of one       *)
(* program, chosen in Init:                                                *)
(*   Poller      polling_service.py    GitHubPoller.start_polling          *)
(*   AutoPoll    github_automator.py   --mode poll                         *)
(*   AutoHook    github_automator.py   --mode webhook                      *)
(*   AutoUpdate  github_automator.py   --mode update (one-shot)            *)
(*   UpdPoll     github_updater.py     main, no webhook secret             *)
(*   UpdHook     github_updater.py     main, webhook secret set            *)
(*   HookSrv     webhook_handler.py    start_webhook_server                *)
(*   Monitor     github_utils.py       GitHubUtils.monitor_repository      *)
(* Executor 0 is the program's main thread; executors 1..MaxThreads are    *)
(* the threads a webhook handler starts with threading.Thread.             *)
(***************************************************************************)
EXTENDS Integers, FiniteSets, Sequences, TLC

\* ---------------------------------------------------------------- bounds
MaxSha == 3         \* commits the remote branch can hold (SHAs are 1..MaxSha)
MaxFails == 2       \* failures the environment injects (network, git, npm)
MaxTime == 4        \* clock ticks (one tick per sleep of the polling loop)
MaxThreads == 2     \* webhook worker threads alive at once
MaxReqs == 2        \* webhook requests delivered
MaxKey == 2         \* webhook secrets tried (keys 1..MaxKey)
MaxBody == 2        \* raw request bodies tried (bodies 1..MaxBody)
MaxHeader == 3      \* longest signature header, in tokens
MaxLines == 3       \* longest todo or changelog file tried, in lines
MaxQueue == 3       \* longest approval queue
AutoCommitTicks == 2 \* auto_commit_interval, in clock ticks

None == 0           \* Python None for a SHA

Shas == 1..MaxSha
Executors == 0..MaxThreads
Threads == 1..MaxThreads

Progs == {"Poller", "AutoPoll", "AutoHook", "AutoUpdate",
          "UpdPoll", "UpdHook", "HookSrv", "Monitor"}
PollProgs == {"Poller", "AutoPoll", "UpdPoll"}
HookProgs == {"AutoHook", "UpdHook", "HookSrv"}
ThreadProgs == {"AutoHook", "UpdHook"}

\* The steps of an update-pipeline run.
SyncSteps == {"sync"}
BuildSteps == {"scaffold", "build", "post"}
DocSteps == {"todo", "changelog"}
CommitSteps == {"commit"}
PipelineSteps == SyncSteps \cup BuildSteps \cup DocSteps \cup CommitSteps
LaterSteps == PipelineSteps \ SyncSteps

VARIABLES
    prog,             \* which program this execution runs
    secret,           \* CONFIG["webhook_secret"] is set
    auto_commit,      \* CONFIG["auto_commit"]
    token,            \* CONFIG["github_token"] is set
    remoteHead,       \* SHA of the monitored branch on GitHub
    last_commit_sha,  \* the watermark (None or a SHA)
    current_sha,      \* the polling loop's local current_sha
    now,              \* the clock
    last_auto_commit, \* the auto-commit timer's reference time
    wc,               \* the local working copy
    ex,               \* per executor: pc, result of this run's sync, steps run
    cyc,              \* what the current poll cycle observed
    fails,            \* failures injected so far
    http,             \* the webhook request in hand or just answered
    reqs,             \* webhook requests delivered so far
    busy,             \* pushes accepted during a run, and the runs they started
    call,             \* the last call of a function examined on its own
    log,              \* the warning and error lines logged so far
    provider,         \* config.provider (vscode-extension/config.py)
    os_in_globals,    \* the name `os` is bound in provider_manager's globals
    current_provider, \* ProviderManager.current_provider, by provider key
    action_requests,  \* approval_workflow.action_requests
    emergency_stopped \* emergency_stop.emergency_stopped

vars == <<prog, secret, auto_commit, token, remoteHead, last_commit_sha, current_sha,
          now, last_auto_commit, wc, ex, cyc, fails, http, reqs, busy, call,
          log, provider, os_in_globals, current_provider, action_requests,
          emergency_stopped>>

cfg == <<prog, secret, auto_commit, token>>
hook == <<http, reqs, busy>>
ext == <<provider, os_in_globals, current_provider, action_requests,
         emergency_stopped>>
prg == <<cfg, hook, log, remoteHead, last_commit_sha, current_sha, now,
         last_auto_commit, wc, ex, cyc, fails>>

Min(a, b) == IF a < b THEN a ELSE b

\* The commit step of a run: its result, whether the tree was clean when it
\* began, the git commands it invoked and the one that failed.
NoCommit == [out |-> "none", clean |-> FALSE, git |-> {}, failedAt |-> "none"]

\* An executor: where it is, how this run's sync ended, the steps this run
\* executed, those of them that failed, what the run returned, and its
\* commit step.
FreshRun == [pc |-> "unused", sync |-> "none", steps |-> {}, failed |-> {},
             ret |-> "none", commit |-> NoCommit]
\* A poll cycle: how the fetch ended, the watermark the check compared with
\* (was), whether it was unset (first) or equal to the SHA read (same).
FreshCycle == [fetch |-> "none", was |-> None, first |-> FALSE, same |-> FALSE]

\* ------------------------------------------------------- webhook requests
Paths == {"/webhook", "/other"}
\* X-Hub-Signature-256: absent, sha256=<the right digest>, sha256=<another
\* digest>, another scheme (sha1=...), a value with no '=' in it.
Sigs == {"absent", "good", "bad", "otherscheme", "noeq"}
Events == {"push", "ping", "issues"}
\* The body: a JSON object whose ref is the monitored branch, one whose ref is
\* another branch (or missing), JSON that is no object, no JSON, no bytes.
Bodies == {"ref_match", "ref_other", "not_object", "bad_json", "empty"}

PlainPush == [path |-> "/webhook", sig |-> "good", event |-> "push",
              body |-> "ref_match"]

Deviations(r) ==
    Cardinality({f \in {"path", "sig", "event", "body"} : r[f] # PlainPush[f]})

\* The requests delivered: a signed push to the monitored branch, changed in at
\* most two of its four parts.
Requests ==
    {r \in [path : Paths, sig : Sigs, event : Events, body : Bodies] :
        Deviations(r) <= 2}

NoReq == [path |-> "none", sig |-> "none", event |-> "none", body |-> "none"]
\* code: an HTTP status, "pending" while the handler still runs the update,
\* "raised" when the handler died without answering, "none" before any request.
NoHttp == [req |-> NoReq, code |-> "none", started |-> FALSE]
NoBusy == [arrived |-> 0, started |-> 0]
NoCall == [fn |-> "none"]

\* A response that was sent is forgotten at the next step; a request still in
\* hand stays.
Forget(h) == IF h.code = "pending" THEN h ELSE NoHttp

\* ------------------------------------------------------------ entry points

\* Where the main thread is once the program has started.  Without a token:
\* polling_service.py and github_updater.py call sys.exit(1), github_automator
\* main returns 1, GitHubUtils.__init__ raises ValueError, and
\* webhook_handler.py logs a warning and serves.
EntryPc(p, tok) ==
    CASE ~tok /\ p = "HookSrv" -> "start"
      [] ~tok /\ p = "Monitor" -> "crashed"
      [] ~tok                  -> "exit1"
      [] p \in PollProgs       -> "fetch"
      [] p = "Monitor"         -> "fetch"
      [] p = "AutoUpdate"      -> "sync"
      [] p = "UpdHook"         -> "sync"
      [] OTHER                 -> "start"

\* github_updater.main picks the mode from the secret; the pollers never
\* read it.
SecretChoices(p) ==
    CASE p = "UpdHook" -> {TRUE}
      [] p \in {"AutoHook", "HookSrv"} -> BOOLEAN
      [] OTHER -> {FALSE}

AutoCommitChoices(p) ==
    IF p \in {"Poller", "AutoPoll", "AutoUpdate"} THEN BOOLEAN ELSE {FALSE}

\* GitHubPoller.__init__ and GitHubAutomator.__init__ create local_path
\* (mkdir(parents=True, exist_ok=True)); both are constructed after the
\* token check.
MkdirAtStart(p, tok) ==
    tok /\ p \in {"Poller", "AutoPoll", "AutoHook", "AutoUpdate"}

\* The assistant-side modules right after import: Config() has read
\* DEFAULT_PROVIDER (p), no ProviderManager is constructed, the approval
\* queue is empty and the emergency stop is off.  provider_manager.py uses
\* os.getenv without importing os: the name is bound (os) only if the code
\* that embeds the module put it into its globals.
Loaded(p, os) ==
    /\ provider = p
    /\ os_in_globals = os
    /\ current_provider = "unset"
    /\ action_requests = <<>>
    /\ emergency_stopped = FALSE

ProgInit ==
    /\ prog \in Progs
    /\ secret \in SecretChoices(prog)
    /\ auto_commit \in AutoCommitChoices(prog)
    /\ token \in BOOLEAN
    /\ remoteHead = 1
    /\ last_commit_sha = None
    /\ current_sha = None
    /\ now = 0
    /\ last_auto_commit = 0
    /\ \E c \in BOOLEAN, sc \in BOOLEAN :
          /\ sc => (c /\ prog \in {"UpdPoll", "UpdHook"})
          /\ wc = [cloned |-> c, head |-> IF c THEN 1 ELSE None,
                   dirty |-> FALSE, scaffold |-> sc, ahead |-> FALSE,
                   dir |-> c \/ MkdirAtStart(prog, token),
                   branch |-> IF c THEN "configured" ELSE "none",
                   origin_token |-> FALSE, built |-> FALSE]
    /\ ex = [e \in Executors |->
               IF e = 0 THEN [FreshRun EXCEPT !.pc = EntryPc(prog, token)] ELSE FreshRun]
    /\ cyc = FreshCycle
    /\ fails = 0
    /\ http = NoHttp
    /\ reqs = 0
    /\ busy = NoBusy
    /\ call = NoCall
    /\ log = {}

Init == Loaded("copilot", FALSE) /\ ProgInit

\* ------------------------------------------------------- change detection

\* Variants of the tests below, against which the properties are tried.
NoSha_never(cur) == FALSE

IsNewCommit_always(last, cur) == TRUE

IsNewCommit_baseline(last, cur) == last # None /\ last # cur

OnException_crash(p) == "crashed"

\* `if not current_sha:` / `if current_commit_sha is None:`
NoSha(cur) == cur = None

\* `if self.last_commit_sha is None or self.last_commit_sha != current_sha:`
IsNewCommit(last, cur) == last = None \/ last # cur

\* What fetching the branch head can do besides succeed.
FetchFailures(p) ==
    CASE p = "Poller"   -> {"none"}
      [] p = "UpdPoll"  -> {"none"}
      [] p = "AutoPoll" -> {"none", "raise"}
      [] OTHER          -> {"raise"}

\* The watermark right after a change was detected, before the run.
WatermarkAtDetect(p, last, cur) ==
    IF p \in {"AutoPoll", "UpdPoll"} THEN cur ELSE last

\* Where the loop goes when the poll saw no change.
NoChangePc(p) ==
    IF p \in {"Poller", "AutoPoll"} THEN "autocommit" ELSE "sleep"

\* Where the loop goes when something raised inside the cycle.
OnException(p) ==
    CASE p = "Poller"   -> "sleep"
      [] p = "AutoPoll" -> "sleep2"
      [] p = "UpdPoll"  -> "sleep2"
      [] OTHER          -> "crashed"

\* ------------------------------------------------------------ pipeline runs

\* The results a step can report: "ok", "fail" (returned False or logged the
\* error and returned), "raise" (an exception left the step), "nothing"
\* (clean tree, nothing to commit).
StepOutcomes(p, step) ==
    CASE step = "sync" ->
           IF p = "HookSrv" THEN {"ok", "raise"} ELSE {"ok", "fail"}
      [] step = "post" -> {"ok", "raise"}
      [] step = "scaffold" -> {"ok", "fail"}
      [] step = "build" ->
           IF p \in {"UpdPoll", "UpdHook"} THEN {"ok", "fail"}
           ELSE {"ok", "fail", "raise"}
      [] step \in DocSteps -> {"ok", "raise"}
      [] step = "commit" ->
           IF p \in {"UpdPoll", "UpdHook"} THEN {"ok", "fail"}
           ELSE {"ok", "nothing", "fail"}
      [] OTHER -> {}

Failure(out) == out \in {"fail", "raise"}

\* Whether the state lets the step end with this result.  A push needs a
\* cloned, changed tree on top of the remote head, with the configured
\* branch checked out (`git push <url> <branch>` pushes the local branch of
\* that name); "nothing to commit" needs a clean repository.
Possible(step, out, w, rh) ==
    CASE step = "commit" /\ out = "ok" ->
           /\ w.cloned /\ w.dirty /\ w.head = rh /\ rh < MaxSha
           /\ w.branch = "configured"
      [] step = "commit" /\ out = "nothing" -> w.cloned /\ ~w.dirty
      [] OTHER -> TRUE

\* A failure is injected while the budget lasts, and is forced when the state
\* leaves the step no other result.
Forced(p, step, w, rh) ==
    \A o \in StepOutcomes(p, step) : ~Failure(o) => ~Possible(step, o, w, rh)

Allowed(p, step, out, w, rh, f) ==
    /\ out \in StepOutcomes(p, step)
    /\ Possible(step, out, w, rh)
    /\ Failure(out) => (f < MaxFails \/ Forced(p, step, w, rh))

FailsAfter(p, step, out, w, rh, f) ==
    IF Failure(out) /\ ~Forced(p, step, w, rh) THEN f + 1 ELSE f

\* git reset --hard, git stash and a fresh clone leave a clean tree;
\* `git fetch && git pull` (github_updater) keeps local modifications.
SyncKeepsDirty(p) == p \in {"UpdPoll", "UpdHook"}

\* `git reset --hard origin/<branch>` (polling_service, webhook_handler) moves
\* the local branch to the remote tip; `git pull origin <branch>`
\* (github_automator, github_updater) merges, and local commits stay.
SyncKeepsCommits(p) == p \notin {"Poller", "HookSrv"}

\* The sync of an existing working copy runs `git checkout <branch>`
\* (github_updater does not).
SyncChecksOut(p) == p \notin {"UpdPoll", "UpdHook"}

\* The branch checked out after a sync.  `git clone <url> <path>` has no
\* --branch: it checks out the remote's default branch, which is the
\* configured one (def) or another.
BranchAfterSync(p, w, def) ==
    CASE w.cloned /\ SyncChecksOut(p) -> "configured"
      [] w.cloned                     -> w.branch
      [] def                          -> "configured"
      [] OTHER                        -> "other"

\* The working copy after a step.  head is the remote commit the local
\* branch holds, ahead says that it has commits of its own on top which are
\* not on the remote; origin_token, that .git/config holds the URL the
\* program cloned from, the configured token in it:
\* `git clone https://<token>@github.com/<owner>/<name>.git <path>` records
\* its URL as remote.origin.url.  In the commit step ch says that `git commit` was done
\* (the step failed in the push).  scaffold: the tree holds the extension
\* files exactly as setup_vscode_extension writes them (github_updater); the
\* step writes fixed content, so it changes the tree only when they are not
\* there yet.  update_changelog rewrites its file with other content on
\* every call.  built: the tree holds what the build (npm install, npm run
\* compile, pip install) makes of the sources it has; building them again
\* changes nothing.  For the other writing steps ch says whether a tracked file
\* changed; for a clone or a pull that brought commits, whether the scaffold
\* files came with it.
WcAfter(p, step, out, w, rh, ch, def) ==
    CASE step = "sync" /\ out = "ok" ->
           [cloned |-> TRUE, head |-> rh, dir |-> TRUE,
            branch |-> BranchAfterSync(p, w, def),
            origin_token |-> IF w.cloned THEN w.origin_token ELSE TRUE,
            built |-> w.cloned /\ w.head = rh /\ w.built,
            dirty |-> w.cloned /\ w.dirty /\ SyncKeepsDirty(p),
            scaffold |-> IF w.cloned /\ w.head = rh THEN w.scaffold
                         ELSE SyncKeepsDirty(p) /\ ch,
            ahead |-> w.cloned /\ w.ahead /\ SyncKeepsCommits(p)]
      [] step = "scaffold" /\ out = "ok" ->
           [w EXCEPT !.dirty = w.dirty \/ ~w.scaffold, !.scaffold = TRUE]
      [] step = "changelog" /\ out = "ok" ->
           [w EXCEPT !.dirty = TRUE]
      [] step \in {"build", "post"} /\ out = "ok" ->
           [w EXCEPT !.dirty = w.dirty \/ (~w.built /\ ch), !.built = TRUE]
      [] step \in (BuildSteps \cup DocSteps) /\ out = "ok" ->
           [w EXCEPT !.dirty = w.dirty \/ ch]
      [] step = "commit" /\ out = "ok" ->
           [w EXCEPT !.head = rh + 1, !.dirty = FALSE, !.ahead = FALSE]
      [] step = "commit" /\ out = "fail" /\ w.cloned ->
           [w EXCEPT !.dirty = w.dirty /\ ~ch, !.ahead = w.ahead \/ ch]
      [] step = "sync" /\ p = "HookSrv" ->
           [w EXCEPT !.dir = TRUE]
      [] OTHER -> w

\* The git commands of the commit step, in order.  github_updater runs
\* `git add . && git commit && git push` with no `git status` before.
CommitCmds(p) ==
    IF p \in {"UpdPoll", "UpdHook"} THEN <<"add", "commit", "push">>
    ELSE <<"status", "add", "commit", "push">>

\* How many of them were invoked when the step ended.  After "ok" all of
\* them; after "nothing" the status alone; after "fail" those up to the one
\* that failed: the first in a directory that is no repository, `git commit`
\* (nothing to commit, exit status 1) on a clean tree, else any of them.
CommitAts(p, out, w) ==
    CASE out = "ok"      -> {Len(CommitCmds(p))}
      [] out = "nothing" -> {1}
      [] ~w.cloned       -> {1}
      [] ~w.dirty        -> {IF CommitCmds(p)[1] = "status" THEN 1 ELSE 2}
      [] OTHER           -> 1..Len(CommitCmds(p))

CommitRecord(p, out, w, at) ==
    [out |-> out,
     clean |-> w.cloned /\ ~w.dirty,
     git |-> {CommitCmds(p)[i] : i \in 1..at},
     failedAt |-> IF out = "fail" THEN CommitCmds(p)[at] ELSE "none"]

\* The error lines a step logs that hold the token.  github_updater logs
\* `e.stderr.decode() if e.stderr else str(e)`: git commit on a clean tree
\* writes "nothing to commit" to stdout and nothing to stderr, and str(e) of
\* the CalledProcessError quotes the command, which ends in the push URL.
TokenLines(p, step, out, w, at) ==
    IF /\ p \in {"UpdPoll", "UpdHook"}
       /\ step = "commit" /\ out = "fail"
       /\ w.cloned /\ ~w.dirty
       /\ CommitCmds(p)[at] = "commit"
    THEN {"Git push failed: Command ... https://<token>@github.com/..."}
    ELSE {}

\* The step failed after `git commit` had succeeded: in the push.
CommitDone(p, out, at) == out = "fail" /\ CommitCmds(p)[at] = "push"

\* The remote head after a step: a successful push adds one commit.
RemoteAfter(step, out, rh) ==
    IF step = "commit" /\ out = "ok" THEN rh + 1 ELSE rh

\* GitHubPoller.poll_and_update: the run after a detected change.
poll_and_update_next(step, out) ==
    CASE step = "sync" /\ out = "ok" -> "post"
      [] step = "sync"               -> "ret"
      [] step = "post" /\ out = "ok" -> "ret"
      [] OTHER                       -> "exc"

\* GitHubAutomator.poll_for_changes: the four calls after a detected change
\* (their return values are not read), and the auto-commit of the else branch.
poll_for_changes_next(step, out) ==
    CASE out = "raise"      -> "exc"
      [] step = "sync"      -> "build"
      [] step = "build"     -> "todo"
      [] step = "todo"      -> "changelog"
      [] OTHER              -> "ret"

full_update_process_commitfirst(step, out) ==
    CASE step = "sync" /\ out = "ok"     -> "commit"
      [] step = "commit"                 -> "scaffold"
      [] step = "scaffold" /\ out = "ok" -> "build"
      [] OTHER                           -> "ret"

\* GitHubUpdater.full_update_process (github_updater.py).
full_update_process_next(step, out) ==
    CASE step = "sync" /\ out = "ok"     -> "scaffold"
      [] step = "scaffold" /\ out = "ok" -> "build"
      [] step = "build"                  -> "commit"
      [] OTHER                           -> "ret"

\* github_automator.main, update mode.
main_update_next(step, out, ac) ==
    CASE out = "raise"               -> "crashed"
      [] step = "sync" /\ out = "ok" -> "build"
      [] step = "sync"               -> "exit1"
      [] step = "build"              -> "todo"
      [] step = "todo"               -> "changelog"
      [] step = "changelog" /\ ac    -> "commit"
      [] OTHER                       -> "exit0"

\* github_automator WebhookHandler._process_push_event, on its own thread.
process_push_event_next(step, out) ==
    CASE out = "raise"      -> "exc"
      [] step = "sync"      -> "build"
      [] step = "build"     -> "todo"
      [] step = "todo"      -> "changelog"
      [] OTHER              -> "ret"

\* webhook_handler WebhookHandler._process_push_event, inside do_POST's try.
HookSrv_process_push_event_next(step, out) ==
    CASE out = "raise"               -> "respond500"
      [] step = "sync"               -> "post"
      [] OTHER                       -> "respond200"

\* Where an executor is once its run returned ("ret") or raised ("exc").
AfterRun(p, e, how) ==
    CASE e \in Threads            -> "unused"
      [] how = "exc"              -> OnException(p)
      [] p = "UpdHook"            -> "forever"
      [] OTHER                    -> "sleep"

Flow(p, step, out, ac) ==
    CASE p = "Poller"     -> poll_and_update_next(step, out)
      [] p = "AutoPoll"   -> poll_for_changes_next(step, out)
      [] p = "AutoUpdate" -> main_update_next(step, out, ac)
      [] p = "AutoHook"   -> process_push_event_next(step, out)
      [] p = "HookSrv"    -> HookSrv_process_push_event_next(step, out)
      [] OTHER            -> full_update_process_next(step, out)

NextPc(p, e, step, out, ac) ==
    LET n == Flow(p, step, out, ac)
    IN IF n \in {"ret", "exc"} THEN AfterRun(p, e, n) ELSE n

\* What the run returns to its caller when it is over:
\* full_update_process returns True after a successful commit and push and
\* False wherever it stops before; the other run bodies return nothing.
ReturnValue(p, step, out, n) ==
    IF n \in {"ret", "exc"} /\ p \in {"UpdPoll", "UpdHook"}
    THEN (IF step = "commit" /\ out = "ok" THEN "True" ELSE "False")
    ELSE "none"

\* GitHubPoller.poll_and_update sets the watermark after the post-update
\* actions returned; the other pollers set it when the change is detected.
WatermarkAfterStep(p, step, out, last, cur) ==
    IF p = "Poller" /\ step = "post" /\ out = "ok" THEN cur ELSE last

\* An executor is inside a pipeline run.
InRun(x) == x.pc \in PipelineSteps

\* One step of a pipeline run on executor e.
RunStep(e, step) ==
    /\ ex[e].pc = step
    /\ \E out \in StepOutcomes(prog, step), ch \in BOOLEAN,
          at \in (IF step = "commit" THEN 1..4 ELSE {0}),
          def \in (IF step = "sync" /\ ~wc.cloned THEN BOOLEAN ELSE {TRUE}) :
         /\ Allowed(prog, step, out, wc, remoteHead, fails)
         /\ step = "commit" =>
               /\ at \in CommitAts(prog, out, wc)
               /\ ch = CommitDone(prog, out, at)
         /\ fails' = FailsAfter(prog, step, out, wc, remoteHead, fails)
         /\ wc' = WcAfter(prog, step, out, wc, remoteHead, ch, def)
         /\ log' = log \cup TokenLines(prog, step, out, wc, at)
         /\ remoteHead' = RemoteAfter(step, out, remoteHead)
         /\ last_commit_sha' =
               IF e = 0
               THEN WatermarkAfterStep(prog, step, out, last_commit_sha, current_sha)
               ELSE last_commit_sha
         /\ LET n == NextPc(prog, e, step, out, auto_commit)
            IN ex' = [ex EXCEPT ![e] =
                        IF n = "unused" THEN FreshRun
                        ELSE [pc |-> n,
                              sync |-> IF step = "sync"
                                       THEN (IF out = "ok" THEN "ok" ELSE "failed")
                                       ELSE ex[e].sync,
                              steps |-> ex[e].steps \cup {step},
                              failed |-> ex[e].failed \cup
                                         (IF Failure(out) THEN {step} ELSE {}),
                              ret |-> ReturnValue(prog, step, out,
                                         Flow(prog, step, out, auto_commit)),
                              commit |-> IF step = "commit"
                                         THEN CommitRecord(prog, out, wc, at)
                                         ELSE ex[e].commit]]
         /\ busy' = IF \E x \in Executors : InRun(ex'[x]) THEN busy ELSE NoBusy
    /\ http' = Forget(http)
    /\ UNCHANGED <<cfg, ext, call, reqs, current_sha, now, last_auto_commit, cyc>>

clone_or_pull_repository == \E e \in Executors : RunStep(e, "sync")
setup_vscode_extension == \E e \in Executors : RunStep(e, "scaffold")
build_vscode_extension == \E e \in Executors : RunStep(e, "build")
run_post_update_actions == \E e \in Executors : RunStep(e, "post")
update_todo_file == \E e \in Executors : RunStep(e, "todo")
update_changelog == \E e \in Executors : RunStep(e, "changelog")
commit_and_push_changes == \E e \in Executors : RunStep(e, "commit")

\* What a finished run on the main thread reported: full_update_process by
\* its return value, github_automator's update mode by its exit status.
Reported(x) ==
    CASE x.pc = "exit0" \/ x.ret = "True"  -> "success"
      [] x.pc = "exit1" \/ x.ret = "False" -> "failure"
      [] x.pc = "crashed"                  -> "crashed"
      [] OTHER                             -> "none"

\* The status the process ended with: what main returned to sys.exit, the
\* argument of sys.exit, or 1 after an exception nobody caught (the
\* interpreter prints the traceback and exits with status 1).  "running"
\* while it has not ended.
ExitStatus(x) ==
    CASE x.pc = "exit0"              -> "0"
      [] x.pc \in {"exit1", "crashed"} -> "1"
      [] OTHER                       -> "running"

\* The pipeline is run once more on the same working copy after the run
\* before it is over: the update-mode command is invoked again, or
\* full_update_process is called again after github_updater's initial update.
\* call keeps what the first run reported and the heads it left.
run_again ==
    /\ prog \in {"AutoUpdate", "UpdHook"}
    /\ call = NoCall
    /\ ex[0].pc \in {"exit0", "exit1", "forever"}
    /\ call' = [fn |-> "run_again", reported |-> Reported(ex[0]),
                head |-> wc.head, remote |-> remoteHead]
    /\ ex' = [ex EXCEPT ![0] = [FreshRun EXCEPT !.pc = "sync"]]
    /\ UNCHANGED <<cfg, ext, log, hook, remoteHead, last_commit_sha, current_sha,
                   now, last_auto_commit, wc, cyc, fails>>

\* ------------------------------------------------------------ polling loops

\* One read of the branch head: GitHubPoller.get_latest_commit_sha,
\* GitHubAPI.get_latest_commit, GitHubAutomator.get_latest_commit_sha.
get_latest_commit_sha ==
    /\ prog \in PollProgs
    /\ ex[0].pc = "fetch"
    /\ \/ /\ current_sha' = remoteHead
          /\ cyc' = [cyc EXCEPT !.fetch = "ok"]
          /\ ex' = [ex EXCEPT ![0].pc = "check"]
          /\ fails' = fails
       \/ /\ fails < MaxFails
          /\ \E f \in FetchFailures(prog) :
               /\ cyc' = [cyc EXCEPT !.fetch =
                            IF f = "none" THEN "failed" ELSE "raised"]
               /\ ex' = [ex EXCEPT ![0].pc =
                            IF f = "none" THEN "check" ELSE OnException(prog)]
          /\ current_sha' = None
          /\ fails' = fails + 1
    /\ UNCHANGED <<cfg, ext, call, log, hook, remoteHead, last_commit_sha, now,
                   last_auto_commit, wc>>

\* The body of a polling loop after the SHA was read: no SHA, a new commit,
\* or no new commit.
PollCheck ==
    /\ ex[0].pc = "check"
    /\ IF NoSha(current_sha)
       THEN /\ ex' = [ex EXCEPT ![0].pc = "sleep"]
            /\ UNCHANGED <<last_commit_sha, cyc>>
       ELSE /\ cyc' = [cyc EXCEPT !.was = last_commit_sha,
                                  !.first = (last_commit_sha = None),
                                  !.same = (last_commit_sha = current_sha)]
            /\ IF IsNewCommit(last_commit_sha, current_sha)
               THEN /\ last_commit_sha' =
                         WatermarkAtDetect(prog, last_commit_sha, current_sha)
                    /\ ex' = [ex EXCEPT ![0].pc = "sync"]
               ELSE /\ ex' = [ex EXCEPT ![0].pc = NoChangePc(prog)]
                    /\ UNCHANGED last_commit_sha
    /\ UNCHANGED <<cfg, ext, call, log, hook, remoteHead, current_sha, now,
                   last_auto_commit, wc, fails>>

poll_and_update == prog = "Poller" /\ PollCheck
poll_for_changes == prog = "AutoPoll" /\ PollCheck
run_polling == prog = "UpdPoll" /\ PollCheck

AutoCommitDue_anytime(ac, t, last) == ac

\* The auto-commit timer: enabled and the interval has elapsed.
AutoCommitDue(ac, t, last) == ac /\ (t - last) >= AutoCommitTicks

TimerReference_always(out, t, last) == t

\* `self.last_auto_commit = now` is the last statement of the try block,
\* after the push.
TimerReference(out, t, last) == IF out = "ok" THEN t ELSE last

\* GitHubPoller.auto_commit_changes: status, add, commit, push; the timer's
\* reference moves only after the push succeeded.
auto_commit_changes ==
    /\ prog = "Poller"
    /\ ex[0].pc = "autocommit"
    /\ IF ~AutoCommitDue(auto_commit, now, last_auto_commit)
       THEN /\ ex' = [ex EXCEPT ![0].pc = "sleep"]
            /\ UNCHANGED <<remoteHead, last_auto_commit, wc, fails>>
       ELSE \E out \in StepOutcomes(prog, "commit"), ch \in BOOLEAN,
               at \in 1..4 :
            /\ Allowed(prog, "commit", out, wc, remoteHead, fails)
            /\ at \in CommitAts(prog, out, wc)
            /\ ch = CommitDone(prog, out, at)
            /\ fails' = FailsAfter(prog, "commit", out, wc, remoteHead, fails)
            /\ wc' = WcAfter(prog, "commit", out, wc, remoteHead, ch, TRUE)
            /\ remoteHead' = RemoteAfter("commit", out, remoteHead)
            /\ last_auto_commit' = TimerReference(out, now, last_auto_commit)
            /\ ex' = [ex EXCEPT ![0].pc = "sleep",
                                ![0].steps = ex[0].steps \cup {"commit"},
                                ![0].failed = ex[0].failed \cup
                                         (IF Failure(out) THEN {"commit"} ELSE {}),
                                ![0].commit = CommitRecord(prog, out, wc, at)]
    /\ UNCHANGED <<cfg, ext, call, log, hook, last_commit_sha, current_sha, now,
                   cyc>>

\* GitHubAutomator.poll_for_changes, else branch: the timer's reference is
\* set before commit_and_push_changes is called.
auto_commit_check ==
    /\ prog = "AutoPoll"
    /\ ex[0].pc = "autocommit"
    /\ IF AutoCommitDue(auto_commit, now, last_auto_commit)
       THEN /\ last_auto_commit' = now
            /\ ex' = [ex EXCEPT ![0].pc = "commit"]
       ELSE /\ ex' = [ex EXCEPT ![0].pc = "sleep"]
            /\ UNCHANGED last_auto_commit
    /\ UNCHANGED <<cfg, ext, call, log, hook, remoteHead, last_commit_sha,
                   current_sha, now, wc, cyc, fails>>

\* time.sleep(poll_interval), or twice that after an exception; then the
\* next cycle starts.
SleepTicks(pc) == IF pc = "sleep2" THEN 2 ELSE 1

sleep ==
    /\ ex[0].pc \in {"sleep", "sleep2"}
    /\ now' = Min(MaxTime, now + SleepTicks(ex[0].pc))
    /\ ex' = [ex EXCEPT ![0] = [FreshRun EXCEPT !.pc = "fetch"]]
    /\ cyc' = FreshCycle
    /\ current_sha' = None
    /\ UNCHANGED <<cfg, ext, call, log, hook, remoteHead, last_commit_sha,
                   last_auto_commit, wc, fails>>

\* GitHubUtils.monitor_repository: one pass over the commit check.  The first
\* SHA seen is recorded without a callback; any exception is re-raised.
monitor_repository ==
    /\ prog = "Monitor"
    /\ ex[0].pc = "fetch"
    /\ \/ /\ cyc' = [fetch |-> "ok", was |-> last_commit_sha,
                     first |-> (last_commit_sha = None),
                     same |-> (last_commit_sha = remoteHead)]
          /\ last_commit_sha' = remoteHead
          /\ ex' = [ex EXCEPT ![0].pc = "sleep",
                              ![0].steps =
                                 IF remoteHead # last_commit_sha
                                    /\ last_commit_sha # None
                                 THEN {"callback"} ELSE {}]
          /\ fails' = fails
       \/ /\ fails < MaxFails
          /\ cyc' = [cyc EXCEPT !.fetch = "raised"]
          /\ ex' = [ex EXCEPT ![0].pc = OnException(prog)]
          /\ fails' = fails + 1
          /\ UNCHANGED last_commit_sha
    /\ UNCHANGED <<cfg, ext, call, log, hook, remoteHead, current_sha, now,
                   last_auto_commit, wc>>

\* ------------------------------------------------------------ webhook servers

verify_signature_trusting(sec, sig) == "true"

\* WebhookHandler._verify_signature of webhook_handler.py and of
\* github_automator.py, called with a non-empty header: "true", "false", or
\* "raise" when `sha_name, github_signature = header.split('=', 1)` cannot
\* unpack.
verify_signature(sec, sig) ==
    CASE ~sec                -> "true"
      [] sig = "noeq"        -> "raise"
      [] sig = "otherscheme" -> "false"
      [] sig = "good"        -> "true"
      [] OTHER               -> "false"

\* github_updater WebhookHandler._verify_signature: no secret or no header is
\* a failed verification.
Upd_verify_signature(sec, sig) ==
    CASE ~sec \/ sig = "absent" -> "false"
      [] sig = "noeq"           -> "raise"
      [] sig = "otherscheme"    -> "false"
      [] sig = "good"           -> "true"
      [] OTHER                  -> "false"

\* json.loads(payload_bytes.decode('utf-8')) raises JSONDecodeError.
BadJson(body) == body \in {"bad_json", "empty"}

IsMonitoredPush_anybranch(event, body) == event = "push"

\* `event_type == 'push'` and `ref == f"refs/heads/{branch}"`.
IsMonitoredPush(event, body) == event = "push" /\ body = "ref_match"

\* What the handler does with a parsed payload: answer 200, start the update
\* ("run"), or die in payload.get on a payload that is no object.
Dispatch(event, body) ==
    CASE event = "ping"                    -> "200"
      [] event = "push" /\ body = "not_object" -> "raised"
      [] IsMonitoredPush(event, body)      -> "run"
      [] OTHER                             -> "200"

\* github_updater do_POST tests `event_type == 'push' and payload.get(...)`
\* in one condition: a ping is an "other event" there.
Upd_Dispatch(event, body) ==
    CASE event = "push" /\ body = "not_object" -> "raised"
      [] IsMonitoredPush(event, body)      -> "run"
      [] OTHER                             -> "200"

HookSrv_do_POST_strict(r, sec) ==
    CASE r.path # "/webhook"                              -> "404"
      [] r.body = "empty"                                 -> "400"
      [] r.sig = "absent"                                 -> "403"
      [] sec /\ verify_signature(sec, r.sig) = "raise"    -> "raised"
      [] sec /\ verify_signature(sec, r.sig) = "false"    -> "403"
      [] BadJson(r.body)                                  -> "400"
      [] OTHER                                            -> Dispatch(r.event, r.body)

\* webhook_handler.py WebhookHandler.do_POST up to the dispatch.
HookSrv_do_POST(r, sec) ==
    CASE r.path # "/webhook"                              -> "404"
      [] r.body = "empty"                                 -> "400"
      [] sec /\ r.sig = "absent"                          -> "403"
      [] sec /\ verify_signature(sec, r.sig) = "raise"    -> "raised"
      [] sec /\ verify_signature(sec, r.sig) = "false"    -> "403"
      [] BadJson(r.body)                                  -> "400"
      [] OTHER                                            -> Dispatch(r.event, r.body)

AutoHook_do_POST_parsefirst(r, sec) ==
    CASE BadJson(r.body)                                  -> "400"
      [] sec /\ r.sig = "absent"                          -> "403"
      [] sec /\ verify_signature(sec, r.sig) = "raise"    -> "raised"
      [] sec /\ verify_signature(sec, r.sig) = "false"    -> "403"
      [] OTHER                                            -> Dispatch(r.event, r.body)

\* github_automator.py WebhookHandler.do_POST: no test of the path.
AutoHook_do_POST(r, sec) ==
    CASE sec /\ r.sig = "absent"                          -> "403"
      [] sec /\ verify_signature(sec, r.sig) = "raise"    -> "raised"
      [] sec /\ verify_signature(sec, r.sig) = "false"    -> "403"
      [] BadJson(r.body)                                  -> "400"
      [] OTHER                                            -> Dispatch(r.event, r.body)

\* github_updater.py WebhookHandler.do_POST.
UpdHook_do_POST(r, sec) ==
    CASE r.path # "/webhook"                              -> "404"
      [] Upd_verify_signature(sec, r.sig) = "raise"       -> "raised"
      [] Upd_verify_signature(sec, r.sig) = "false"       -> "403"
      [] BadJson(r.body)                                  -> "400"
      [] OTHER                                            -> Upd_Dispatch(r.event, r.body)

Handle(p, r, sec) ==
    CASE p = "HookSrv"  -> HookSrv_do_POST(r, sec)
      [] p = "AutoHook" -> AutoHook_do_POST(r, sec)
      [] OTHER          -> UpdHook_do_POST(r, sec)

SecretWarning_silent(sec) == {}

\* `if not CONFIG["webhook_secret"]: logger.warning("WEBHOOK_SECRET not set
\* - webhook signatures won't be verified")`
SecretWarning(sec) == IF sec THEN {} ELSE {"WEBHOOK_SECRET not set"}

\* webhook_handler.start_webhook_server: `if not CONFIG["github_token"]:
\* logger.warning("GITHUB_TOKEN not set - repository operations may fail")`
TokenWarning(p, tok) ==
    IF p = "HookSrv" /\ ~tok THEN {"GITHUB_TOKEN not set"} ELSE {}

\* webhook_handler.start_webhook_server, and github_automator.main in webhook
\* mode followed by run_webhook_server: the warning, then serve_forever.
start_webhook_server ==
    /\ prog \in {"HookSrv", "AutoHook"}
    /\ ex[0].pc = "start"
    /\ log' = log \cup SecretWarning(secret) \cup TokenWarning(prog, token)
    /\ ex' = [ex EXCEPT ![0].pc = "serve"]
    /\ UNCHANGED <<cfg, ext, call, hook, remoteHead, last_commit_sha, current_sha,
                   now, last_auto_commit, wc, cyc, fails>>

FreeThreads == {t \in Threads : ex[t].pc = "unused"}
FirstFree == CHOOSE t \in FreeThreads : \A u \in FreeThreads : t <= u

\* A request arrives at a server whose handler starts the update on a new
\* thread (threading.Thread(target=...).start()) and answers 202 at once.
do_POST_threaded ==
    /\ prog \in ThreadProgs
    /\ prog = "AutoHook" => ex[0].pc = "serve"
    /\ prog = "UpdHook" => ex[0].pc # "exit1"
    /\ reqs < MaxReqs
    /\ \E r \in Requests :
         LET h == Handle(prog, r, secret)
         IN IF h = "run"
            THEN /\ FreeThreads # {}
                 /\ ex' = [ex EXCEPT ![FirstFree] =
                              [FreshRun EXCEPT !.pc = "sync"]]
                 /\ http' = [req |-> r, code |-> "202", started |-> TRUE]
                 /\ busy' = IF \E x \in Executors : InRun(ex[x])
                            THEN [arrived |-> busy.arrived + 1,
                                  started |-> busy.started + 1]
                            ELSE busy
            ELSE /\ http' = [req |-> r, code |-> h, started |-> FALSE]
                 /\ UNCHANGED <<ex, busy>>
    /\ reqs' = reqs + 1
    /\ UNCHANGED <<cfg, ext, call, log, remoteHead, last_commit_sha, current_sha, now,
                   last_auto_commit, wc, cyc, fails>>

\* webhook_handler.py: the handler runs the update itself, inside do_POST,
\* and answers when it is over.
do_POST_inline ==
    /\ prog = "HookSrv"
    /\ ex[0].pc = "serve"
    /\ reqs < MaxReqs
    /\ \E r \in Requests :
         LET h == Handle(prog, r, secret)
         IN IF h = "run"
            THEN /\ ex' = [ex EXCEPT ![0] = [FreshRun EXCEPT !.pc = "sync"]]
                 /\ http' = [req |-> r, code |-> "pending", started |-> TRUE]
            ELSE /\ http' = [req |-> r, code |-> h, started |-> FALSE]
                 /\ UNCHANGED ex
    /\ reqs' = reqs + 1
    /\ UNCHANGED <<cfg, ext, call, log, remoteHead, last_commit_sha, current_sha, now,
                   last_auto_commit, wc, cyc, fails, busy>>

\* webhook_handler.py do_POST, after _process_push_event returned (200) or
\* raised (500).
send_response ==
    /\ prog = "HookSrv"
    /\ ex[0].pc \in {"respond200", "respond500"}
    /\ http' = [http EXCEPT !.code =
                   IF ex[0].pc = "respond200" THEN "200" ELSE "500"]
    /\ ex' = [ex EXCEPT ![0] = [FreshRun EXCEPT !.pc = "serve"]]
    /\ UNCHANGED <<cfg, ext, call, log, remoteHead, last_commit_sha, current_sha, now,
                   last_auto_commit, wc, cyc, fails, reqs, busy>>

\* ------------------------------------------------------------ environment

\* Somebody pushes a commit to the monitored branch.
RemotePush ==
    /\ remoteHead < MaxSha
    /\ remoteHead' = remoteHead + 1
    /\ http' = Forget(http)
    /\ UNCHANGED <<cfg, ext, call, log, reqs, busy, last_commit_sha, current_sha, now,
                   last_auto_commit, wc, ex, cyc, fails>>

Next ==
    \/ get_latest_commit_sha
    \/ poll_and_update
    \/ poll_for_changes
    \/ run_polling
    \/ clone_or_pull_repository
    \/ setup_vscode_extension
    \/ build_vscode_extension
    \/ run_post_update_actions
    \/ update_todo_file
    \/ update_changelog
    \/ commit_and_push_changes
    \/ auto_commit_changes
    \/ auto_commit_check
    \/ sleep
    \/ monitor_repository
    \/ start_webhook_server
    \/ do_POST_threaded
    \/ do_POST_inline
    \/ send_response
    \/ RemotePush

Spec == Init /\ [][Next]_vars

\* The polling programs alone, with the main thread kept running: the loop
\* is `while True` on the only thread, so a step that is enabled is taken.
PollInit == Init /\ prog \in PollProgs /\ token

MainThread ==
    \/ get_latest_commit_sha
    \/ poll_and_update
    \/ poll_for_changes
    \/ run_polling
    \/ clone_or_pull_repository
    \/ setup_vscode_extension
    \/ build_vscode_extension
    \/ run_post_update_actions
    \/ update_todo_file
    \/ update_changelog
    \/ commit_and_push_changes
    \/ auto_commit_changes
    \/ auto_commit_check
    \/ sleep

PollNext == MainThread \/ RemotePush

PollSpec == PollInit /\ [][PollNext]_vars /\ WF_vars(MainThread)

\* The polling programs when nobody but the program itself pushes to the
\* branch.
QuietSpec == PollInit /\ [][MainThread]_vars /\ WF_vars(MainThread)

\* ------------------------------------------------- signature verification

\* Secrets and raw bodies are numbered.  A header is a sequence of tokens:
\* a scheme name, the character '=', or a hex digest.
Keys == 1..MaxKey
RawBodies == 1..MaxBody

\* Hex strings to draw digests from.
HexTable == <<"00", "01", "02", "03", "04", "05", "06", "07", "08", "09",
              "0a", "0b", "0c", "0d", "0e", "0f", "10">>

hexdigest_keyonly(key, body) == HexTable[key + 1]

\* hmac.new(secret, msg=body, digestmod=sha256).hexdigest(): one digest per
\* (secret, body), no two alike (HMAC-SHA256 taken as collision-free).
hexdigest(key, body) == HexTable[(key - 1) * MaxBody + body + 1]

\* The hex strings tried: every digest of the domain, and "00", which is the
\* digest of nothing in it.
HexStrings == {HexTable[i] : i \in 1..(MaxKey * MaxBody + 1)}
Tokens == {"sha256", "sha1", "="} \cup HexStrings

RECURSIVE SeqsUpTo(_)
SeqsUpTo(n) ==
    IF n = 0 THEN {<<>>}
    ELSE LET shorter == SeqsUpTo(n - 1)
         IN shorter \cup {Append(q, t) : q \in {x \in shorter : Len(x) = n - 1},
                                         t \in Tokens}

Headers == SeqsUpTo(MaxHeader)

\* str.split('=', 1): the parts before and after the first '=', or the whole
\* string alone when it holds no '='.
Split1(h) ==
    LET eqs == {i \in 1..Len(h) : h[i] = "="}
    IN IF eqs = {} THEN <<h>>
       ELSE LET i == CHOOSE j \in eqs : \A k \in eqs : j <= k
            IN <<SubSeq(h, 1, i - 1), SubSeq(h, i + 1, Len(h))>>

\* WebhookHandler._verify_signature of webhook_handler.py and of
\* github_automator.py, with a secret configured: unpacking the split into
\* two names raises ValueError unless it has two parts.
HookSrv_verify_signature(key, body, header) ==
    LET parts == Split1(header)
    IN IF Len(parts) # 2 THEN "raise"
       ELSE IF parts[1] # <<"sha256">> THEN "false"
       ELSE IF parts[2] = <<hexdigest(key, body)>> THEN "true" ELSE "false"

\* github_updater.py WebhookHandler._verify_signature: an empty header is
\* refused before the split.
UpdHook_verify_signature(key, body, header) ==
    IF header = <<>> THEN "false"
    ELSE HookSrv_verify_signature(key, body, header)

\* github_repo_updater.py verify_webhook_signature: the whole header is
\* compared with 'sha256=' + hexdigest.
verify_webhook_signature(key, body, header) ==
    IF header = <<>> THEN "false"
    ELSE IF header = <<"sha256", "=", hexdigest(key, body)>> THEN "true"
    ELSE "false"

\* One call of a verifier, examined from the initial state.  do_POST of
\* webhook_handler.py and of github_automator.py calls it only with a
\* non-empty header.
VerifyCall(fn, key, body, header) ==
    /\ call = NoCall
    /\ call' = [fn |-> fn, key |-> key, body |-> body, header |-> header,
                result |-> CASE fn = "HookSrv_verify_signature" ->
                                  HookSrv_verify_signature(key, body, header)
                             [] fn = "UpdHook_verify_signature" ->
                                  UpdHook_verify_signature(key, body, header)
                             [] OTHER ->
                                  verify_webhook_signature(key, body, header)]
    /\ UNCHANGED <<cfg, ext, log, hook, remoteHead, last_commit_sha, current_sha,
                   now, last_auto_commit, wc, ex, cyc, fails>>

call_HookSrv_verify_signature ==
    /\ call = NoCall
    /\ \E key \in Keys, body \in RawBodies, header \in Headers \ {<<>>} :
           VerifyCall("HookSrv_verify_signature", key, body, header)

call_UpdHook_verify_signature ==
    /\ call = NoCall
    /\ \E key \in Keys, body \in RawBodies, header \in Headers :
           VerifyCall("UpdHook_verify_signature", key, body, header)

call_verify_webhook_signature ==
    /\ call = NoCall
    /\ \E key \in Keys, body \in RawBodies, header \in Headers :
           VerifyCall("verify_webhook_signature", key, body, header)

SigInit == Init /\ prog = "HookSrv" /\ secret /\ token /\ wc.cloned

SigNext ==
    \/ call_HookSrv_verify_signature
    \/ call_UpdHook_verify_signature
    \/ call_verify_webhook_signature

SigSpec == SigInit /\ [][SigNext]_vars

\* Two runs of the pipeline in succession, nobody else pushing in between.
TwiceInit == Init /\ prog \in {"AutoUpdate", "UpdHook"} /\ token

TwiceNext ==
    \/ clone_or_pull_repository
    \/ setup_vscode_extension
    \/ build_vscode_extension
    \/ update_todo_file
    \/ update_changelog
    \/ commit_and_push_changes
    \/ run_again

TwiceSpec == TwiceInit /\ [][TwiceNext]_vars

\* ------------------------------------------------------ documentation files

\* A file is a sequence of lines, or Absent.  Changelog lines: the title, the
\* "## [Unreleased] - <date>" heading, the "### Added" and "### Fixed" blocks
\* (heading and items), the heading of a released version, other text.
Absent == <<"absent">>
ChangelogLines == {"# Changelog", "## [Unreleased]", "### Added", "### Fixed",
                   "## [1.0.0]", "text"}

RECURSIVE LinesUpTo(_, _)
LinesUpTo(alphabet, n) ==
    IF n = 0 THEN {<<>>}
    ELSE LET shorter == LinesUpTo(alphabet, n - 1)
         IN shorter \cup {Append(q, t) : q \in {x \in shorter : Len(x) = n - 1},
                                         t \in alphabet}

\* new_entry of update_changelog.
NewEntry == <<"## [Unreleased]", "### Added", "### Fixed">>

\* The lines in which content.find("##", ...) finds a match.
HasHashes(line) == line \in {"## [Unreleased]", "### Added", "### Fixed",
                             "## [1.0.0]"}

IsUnreleased(line) == line = "## [Unreleased]"

\* content.find(...) over lines: the least index of a set of matches, 0 when
\* there is none.
FirstOf(hits) ==
    IF hits = {} THEN 0 ELSE CHOOSE i \in hits : \A j \in hits : i <= j

\* content.find("## [Unreleased]")
FindUnreleased(c) == FirstOf({i \in 1..Len(c) : IsUnreleased(c[i])})

\* content.find("##", from + 1)
FindHashes(c, from) == FirstOf({i \in (from + 1)..Len(c) : HasHashes(c[i])})

\* GitHubAutomator.update_changelog: the file's content after the call.
changelog_after(c) ==
    IF c = Absent THEN <<"# Changelog">> \o NewEntry
    ELSE LET unreleased_pos == FindUnreleased(c)
         IN IF unreleased_pos > 0
            THEN LET next_version_pos == FindHashes(c, unreleased_pos)
                 IN IF next_version_pos > 0
                    THEN SubSeq(c, 1, unreleased_pos - 1) \o NewEntry
                         \o SubSeq(c, next_version_pos, Len(c))
                    ELSE c \o NewEntry
            ELSE IF c = <<>> THEN NewEntry
                 ELSE <<c[1]>> \o NewEntry \o SubSeq(c, 2, Len(c))

\* Todo lines: an open or a done item of tasks_to_mark, an open item that is
\* not in tasks_to_mark, other text.
TodoLines == {"- [ ] [HIGH] Set up GitHub repository automation",
              "- [x] [HIGH] Set up GitHub repository automation",
              "- [ ] [HIGH] Implement webhook handler",
              "text"}

MarkDone(line) ==
    IF line = "- [ ] [HIGH] Set up GitHub repository automation"
    THEN "- [x] [HIGH] Set up GitHub repository automation"
    ELSE line

\* GitHubAutomator.update_todo_file: the file's content after the call.
todo_after(c) ==
    IF c = Absent
    THEN <<"text", "- [x] [HIGH] Set up GitHub repository automation",
           "- [ ] [HIGH] Implement webhook handler">>
    ELSE [i \in 1..Len(c) |-> MarkDone(c[i])]

DocAfter(fn, c) ==
    IF fn = "update_changelog" THEN changelog_after(c) ELSE todo_after(c)

\* The first application of a docs step to a file, and the second one, on
\* the same day, to what the first left.
DocFirst(fn, c) ==
    /\ call = NoCall
    /\ call' = [fn |-> fn, runs |-> 1, before |-> c, first |-> DocAfter(fn, c),
                second |-> <<>>]
    /\ UNCHANGED <<cfg, ext, log, hook, remoteHead, last_commit_sha, current_sha,
                   now, last_auto_commit, wc, ex, cyc, fails>>

call_update_changelog ==
    /\ call = NoCall
    /\ \E c \in LinesUpTo(ChangelogLines, MaxLines) \cup {Absent} :
           DocFirst("update_changelog", c)

call_update_todo_file ==
    /\ call = NoCall
    /\ \E c \in LinesUpTo(TodoLines, MaxLines) \cup {Absent} :
           DocFirst("update_todo_file", c)

call_again ==
    /\ call.fn \in {"update_changelog", "update_todo_file"}
    /\ call.runs = 1
    /\ call' = [call EXCEPT !.runs = 2, !.second = DocAfter(call.fn, call.first)]
    /\ UNCHANGED <<cfg, ext, log, hook, remoteHead, last_commit_sha, current_sha,
                   now, last_auto_commit, wc, ex, cyc, fails>>

DocInit == Init /\ prog = "AutoUpdate" /\ auto_commit /\ token /\ wc.cloned

DocNext == call_update_changelog \/ call_update_todo_file \/ call_again

DocSpec == DocInit /\ [][DocNext]_vars

\* ------------------------------------------------- assistant-side modules

\* Provider names tried: the keys of ProviderManager.providers and one that
\* is none of them.
Providers == {"copilot", "claude", "openai"}
ProviderNames == Providers \cup {"gemini"}

\* Users tried: the two of user_roles and one without a role.
Users == {"admin_user", "regular_user", "guest"}
RequestedActions == {"deploy", "rollback"}

\* permissions.user_roles.get(user)
user_roles(user) ==
    CASE user = "admin_user"   -> "admin"
      [] user = "regular_user" -> "user"
      [] OTHER                 -> "none"

\* permissions.roles_permissions.get(role, [])
roles_permissions(role) ==
    CASE role = "admin" -> {"approve_action", "configure_settings", "view_logs",
                            "emergency_stop"}
      [] role = "user"  -> {"view_logs"}
      [] OTHER          -> {}

has_permission_anyone(user, permission) == TRUE

has_permission_anyrole(user, permission) == user_roles(user) # "none"

\* permissions.has_permission
has_permission(user, permission) ==
    /\ user_roles(user) # "none"
    /\ permission \in roles_permissions(user_roles(user))

\* ProviderManager.get_provider_instance: the instance of the provider's
\* class (written as its key), or the exception that leaves the call:
\* ValueError for a name that is no key, NameError from get_token's
\* os.getenv when os is not bound.
get_provider_instance(provider_name, os) ==
    CASE provider_name \notin Providers -> "ValueError"
      [] ~os                            -> "NameError"
      [] OTHER                          -> provider_name

\* ProviderManager(): __init__ assigns current_provider unless
\* get_provider_instance raises; then no manager comes into being.
ProviderManager_init ==
    /\ current_provider = "unset"
    /\ LET r == get_provider_instance(provider, os_in_globals)
       IN /\ current_provider' = IF r \in Providers THEN r ELSE "unset"
          /\ call' = [fn |-> "ProviderManager", user |-> "none",
                      arg |-> provider, result |-> r]
    /\ UNCHANGED <<prg, provider, os_in_globals, action_requests,
                   emergency_stopped>>

\* ProviderManager.switch_provider: config.set_provider(provider_name), then
\* self.current_provider = self.get_provider_instance(provider_name).
switch_provider ==
    /\ current_provider # "unset"
    /\ \E provider_name \in ProviderNames :
         LET r == get_provider_instance(provider_name, os_in_globals)
         IN /\ provider' = provider_name
            /\ current_provider' = IF r \in Providers THEN r ELSE current_provider
            /\ call' = [fn |-> "switch_provider", user |-> "none",
                        arg |-> provider_name, result |-> r]
    /\ UNCHANGED <<prg, os_in_globals, action_requests, emergency_stopped>>

get_pending_requests_all(q) == q

\* approval_workflow.get_pending_requests
get_pending_requests(q) == SelectSeq(q, LAMBDA req : req.status = "pending")

\* approval_workflow.request_action
request_action ==
    /\ \E user \in Users, action \in RequestedActions :
         IF ~has_permission(user, "approve_action")
         THEN /\ call' = [fn |-> "request_action", user |-> user,
                          arg |-> action, result |-> "False"]
              /\ UNCHANGED action_requests
         ELSE /\ Len(action_requests) < MaxQueue
              /\ action_requests' =
                    Append(action_requests,
                           [user |-> user, action |-> action, status |-> "pending"])
              /\ call' = [fn |-> "request_action", user |-> user,
                          arg |-> action, result |-> "True"]
    /\ UNCHANGED <<prg, provider, os_in_globals, current_provider,
                   emergency_stopped>>

\* approval_workflow.approve_action; request_index counts from 0.
approve_action ==
    /\ \E admin_user \in Users, request_index \in -1..MaxQueue :
         IF \/ ~has_permission(admin_user, "approve_action")
            \/ request_index < 0
            \/ request_index >= Len(action_requests)
         THEN /\ call' = [fn |-> "approve_action", user |-> admin_user,
                          arg |-> request_index, result |-> "False"]
              /\ UNCHANGED action_requests
         ELSE /\ action_requests' =
                    [action_requests EXCEPT ![request_index + 1].status = "approved"]
              /\ call' = [fn |-> "approve_action", user |-> admin_user,
                          arg |-> request_index, result |-> "True"]
    /\ UNCHANGED <<prg, provider, os_in_globals, current_provider,
                   emergency_stopped>>

\* A call of get_pending_requests or of is_emergency_stopped: it returns and
\* changes nothing.
read_state ==
    /\ \E fn \in {"get_pending_requests", "is_emergency_stopped"} :
         call' = [fn |-> fn, user |-> "none", arg |-> "none",
                  result |-> IF fn = "get_pending_requests"
                             THEN get_pending_requests(action_requests)
                             ELSE emergency_stopped]
    /\ UNCHANGED <<prg, ext>>

\* emergency_stop.emergency_stop
emergency_stop ==
    /\ \E user \in Users :
         IF ~has_permission(user, "emergency_stop")
         THEN /\ call' = [fn |-> "emergency_stop", user |-> user,
                          arg |-> "none", result |-> "False"]
              /\ UNCHANGED emergency_stopped
         ELSE /\ emergency_stopped' = TRUE
              /\ call' = [fn |-> "emergency_stop", user |-> user,
                          arg |-> "none", result |-> "True"]
    /\ UNCHANGED <<prg, provider, os_in_globals, current_provider,
                   action_requests>>

ExtInit ==
    /\ \E p \in ProviderNames, os \in BOOLEAN : Loaded(p, os)
    /\ ProgInit
    /\ prog = "Monitor"
    /\ token
    /\ ~wc.cloned

ExtNext ==
    \/ ProviderManager_init
    \/ switch_provider
    \/ request_action
    \/ approve_action
    \/ read_state
    \/ emergency_stop

ExtSpec == ExtInit /\ [][ExtNext]_vars

\* ------------------------------------------------------------------ claims

RunsInProgress == {e \in Executors : InRun(ex[e])}

\* C1: at most one update-pipeline run is executing at any time.
C1_OnePipelineAtATime == Cardinality(RunsInProgress) <= 1

\* C2: the pushes accepted while a run is in progress start at most one run
\* between them (N pushes coalesce into one run, not N).
C2_Coalescing == busy.arrived >= 1 => busy.started <= 1

\* C3: in a polling program, once the sync of a change-triggered run has
\* failed, last_commit_sha is what it was before the change was detected.
C3_WatermarkSafety ==
    (prog \in PollProgs /\ ex[0].sync = "failed") => last_commit_sha = cyc.was

\* C4: a remote head the working copy is not synced to leads to a successful
\* sync to it, unless the remote head moves on (fetches and syncs fail only
\* finitely often: MaxFails).
C4_NoChangeMissed ==
    \A s \in Shas :
        (remoteHead = s /\ wc.head # s) ~> (wc.head = s \/ remoteHead # s)

\* C5: a run whose sync failed executes no later step.
C5_SyncFailureAborts ==
    \A e \in Executors :
        ex[e].sync = "failed" =>
            (ex[e].steps \cap LaterSteps = {} /\ ex[e].pc \notin LaterSteps)

\* C6: a poll that reads the SHA already recorded as last_commit_sha starts no
\* run: no sync, no build, no docs update (and no callback in the monitor).
C6_NoRunWithoutChange ==
    cyc.same =>
        /\ ex[0].pc \notin (SyncSteps \cup BuildSteps \cup DocSteps)
        /\ ex[0].steps \cap (SyncSteps \cup BuildSteps \cup DocSteps
                             \cup {"callback"}) = {}

C6_Witness ==
    /\ prog = "Poller"
    /\ cyc.same
    /\ ex[0].pc = "sleep"
    /\ last_commit_sha = remoteHead

\* C7 as stated: the first SHA observed (last_commit_sha unset) starts no
\* pipeline run.
C7_FirstObservationIsBaseline ==
    cyc.first => (~InRun(ex[0]) /\ ex[0].steps = {})

\* C7 as amended: only monitor_repository takes the first SHA as a baseline;
\* the three polling loops treat it as a change and start a run with the
\* sync; in all of them a poll that reads the recorded SHA starts nothing.
C7_FirstObservationPerVariant ==
    /\ (prog = "Monitor" /\ cyc.first) =>
          (ex[0].steps = {} /\ last_commit_sha # None)
    /\ (prog \in PollProgs /\ cyc.first) =>
          (ex[0].pc = "sync" \/ "sync" \in ex[0].steps)
    /\ (InRun(ex[0]) /\ prog \in PollProgs /\ ex[0].pc # "commit") => ~cyc.same
    /\ ("callback" \in ex[0].steps) => (~cyc.same /\ ~cyc.first)

C7_Witness ==
    /\ prog = "Poller"
    /\ cyc.first
    /\ "sync" \in ex[0].steps
    /\ ex[0].sync = "ok"

\* C8: a poll whose fetch of the head SHA failed returns no SHA without
\* raising (GitHubPoller, github_updater), runs no pipeline step and leaves
\* last_commit_sha and last_auto_commit as they were.
C8_FetchFailureFrame ==
    [][ /\ (prog \in {"Poller", "UpdPoll"} => cyc'.fetch # "raised")
        /\ (cyc'.fetch \in {"failed", "raised"}) =>
              /\ last_commit_sha' = last_commit_sha
              /\ last_auto_commit' = last_auto_commit
              /\ ~InRun(ex'[0])
              /\ ex'[0].steps = {}
              /\ wc' = wc ]_vars

C8_Witness ==
    /\ prog = "Poller"
    /\ cyc.fetch = "failed"
    /\ ex[0].pc = "sleep"
    /\ last_commit_sha # None

\* C9: the polling loop polls again and again, whatever failed or raised in
\* a cycle.
C9_PollingNeverStops == []<>(ex[0].pc = "fetch")

C9_Witness ==
    /\ prog \in PollProgs
    /\ fails = MaxFails
    /\ ex[0].pc = "fetch"

\* The request passed the handler's checks of path, signature and body, and
\* its payload is a JSON object.
AcceptedEvent(p, r, sec) ==
    /\ p = "AutoHook" \/ r.path = "/webhook"
    /\ IF p = "UpdHook" THEN sec /\ r.sig = "good" ELSE (sec => r.sig = "good")
    /\ r.body \in {"ref_match", "ref_other"}

\* C10: a request starts a run only if it is a push whose ref is the
\* monitored branch; every other accepted event is answered 200 and starts
\* no run.
C10_OnlyMonitoredPushStartsRun ==
    http.code # "none" =>
        /\ http.started => (http.req.event = "push" /\ http.req.body = "ref_match")
        /\ (/\ AcceptedEvent(prog, http.req, secret)
            /\ ~(http.req.event = "push" /\ http.req.body = "ref_match")) =>
              (http.code = "200" /\ ~http.started)

C10_Witness ==
    /\ http.req.event = "push"
    /\ http.req.body = "ref_other"
    /\ http.req.sig = "good"
    /\ secret
    /\ http.code = "200"
    /\ ~http.started

\* The request in hand lacks a signature, carries a wrong digest, or is
\* correctly signed with a body that is no JSON.
Unsigned(r) == r.sig = "absent"
WrongDigest(r) == r.sig = "bad"
SignedNoJson(r) == r.sig = "good" /\ r.body \in {"bad_json", "empty"}

\* C11 as stated: with a secret, a request to the endpoint with no signature
\* is answered 403, one with a wrong digest 403, a correctly signed one whose
\* body is no JSON 400, and none of them starts a run.
C11_RejectCodes ==
    (secret /\ http.code # "none" /\ (prog = "AutoHook" \/ http.req.path = "/webhook")) =>
        /\ Unsigned(http.req) => (http.code = "403" /\ ~http.started)
        /\ WrongDigest(http.req) => (http.code = "403" /\ ~http.started)
        /\ SignedNoJson(http.req) => (http.code = "400" /\ ~http.started)

\* C11 as amended: the same, except that webhook_handler.py answers a request
\* with an empty body 400 before it looks at the signature.
C11_RejectCodesNonEmpty ==
    (secret /\ http.code # "none" /\ (prog = "AutoHook" \/ http.req.path = "/webhook")) =>
        IF prog = "HookSrv" /\ http.req.body = "empty"
        THEN http.code = "400" /\ ~http.started
        ELSE /\ Unsigned(http.req) => (http.code = "403" /\ ~http.started)
             /\ WrongDigest(http.req) => (http.code = "403" /\ ~http.started)
             /\ SignedNoJson(http.req) => (http.code = "400" /\ ~http.started)

C11_Witness ==
    /\ secret
    /\ prog = "HookSrv"
    /\ http.req = [PlainPush EXCEPT !.sig = "bad"]
    /\ http.code = "403"
    /\ ~http.started

\* The header GitHub sends for a body: sha256=<hex digest>.
SignatureFor(key, body) == <<"sha256", "=", hexdigest(key, body)>>

IsVerifyCall == call.fn \in {"HookSrv_verify_signature",
                             "UpdHook_verify_signature",
                             "verify_webhook_signature"}

\* C12: the header sha256=hex(HMAC(S, B)) verifies for body B under secret S,
\* the same header does not verify for another body, and no other hex digest
\* verifies for B.
C12_SignatureCorrectness ==
    IsVerifyCall =>
        /\ call.header = SignatureFor(call.key, call.body) => call.result = "true"
        /\ \A b \in RawBodies \ {call.body} :
              call.header = SignatureFor(call.key, b) => call.result = "false"
        /\ \A d \in HexStrings \ {hexdigest(call.key, call.body)} :
              call.header = <<"sha256", "=", d>> => call.result = "false"

C12_Witness ==
    /\ call.fn = "UpdHook_verify_signature"
    /\ call.body = 1
    /\ call.header = SignatureFor(call.key, 2)
    /\ call.result = "false"

\* C13: with a secret, a non-empty header that is not sha256=<hex> (another
\* scheme, or no '=' in it) makes the verifier of webhook_handler.py,
\* github_automator.py and github_updater.py return false; it never raises.
C13_OtherHeadersAreFalse ==
    (/\ call.fn \in {"HookSrv_verify_signature", "UpdHook_verify_signature"}
     /\ call.header # <<>>
     /\ ~(\E d \in HexStrings : call.header = <<"sha256", "=", d>>)) =>
        call.result = "false"

\* C14: a webhook server that runs without a secret has logged the warning
\* before it handles its first request.
C14_WarnedBeforeUnsigned ==
    (prog \in HookProgs /\ ~secret /\ (reqs > 0 \/ ex[0].pc = "serve")) =>
        "WEBHOOK_SECRET not set" \in log

C14_Witness ==
    /\ ~secret
    /\ http.req.sig = "absent"
    /\ http.started
    /\ "WEBHOOK_SECRET not set" \in log

\* C15: a run whose sync succeeded and whose scaffold or build step failed
\* still attempts the steps after the build (docs update, commit and push).
C15_SoftBuildFailure ==
    \A e \in Executors :
        (/\ ex[e].sync = "ok"
         /\ ex[e].failed \cap {"scaffold", "build"} # {}
         /\ ~InRun(ex[e])) =>
            ex[e].steps \cap (DocSteps \cup CommitSteps) # {}

\* C16: a commit step that begins on a clean working copy (and whose
\* `git status` did not itself fail) ends with "nothing to commit" and invokes
\* neither git commit nor git push.
C16_NoOpPush ==
    \A e \in Executors :
        (/\ ex[e].commit.out # "none"
         /\ ex[e].commit.clean
         /\ ex[e].commit.failedAt # "status") =>
            /\ ex[e].commit.out = "nothing"
            /\ ex[e].commit.git \cap {"commit", "push"} = {}

\* C18: applying update_todo_file or update_changelog a second time leaves
\* the file as the first application left it.
C18_DocsIdempotent ==
    (call.fn \in {"update_changelog", "update_todo_file"} /\ call.runs = 2) =>
        call.second = call.first

\* C17: when the pipeline is run twice in succession with no remote change
\* in between and no failure injected, both runs report success and the
\* second run makes no new commit (the heads are as the first run left them).
C17_PipelineIdempotent ==
    (/\ call.fn = "run_again"
     /\ call.reported = "success"
     /\ fails = 0
     /\ ex[0].pc \in {"exit0", "exit1", "forever", "crashed"}) =>
        /\ Reported(ex[0]) = "success"
        /\ wc.head = call.head
        /\ remoteHead = call.remote

\* C19: a finished run reports success only if no step it attempted failed,
\* failure if its sync failed, and something distinct from both if the sync
\* succeeded and a later step failed.
C19_OutcomeReporting ==
    Reported(ex[0]) \in {"success", "failure"} =>
        /\ Reported(ex[0]) = "success" => ex[0].failed = {}
        /\ ex[0].sync = "failed" => Reported(ex[0]) = "failure"
        /\ (ex[0].sync = "ok" /\ ex[0].failed # {}) =>
              Reported(ex[0]) \notin {"success", "failure"}

\* C20: the response to an accepted push is sent before any step of the run
\* it started is executed: no handler is still holding its request while the
\* pipeline works.
C20_RespondWithoutWaiting ==
    (http.started /\ \E e \in Executors : ex[e].steps # {}) =>
        http.code \in {"200", "202"}

\* The auto-commit timer fires in this step: the poll cycle's else branch
\* goes on to the commit step.
TimerFires ==
    /\ prog \in {"Poller", "AutoPoll"}
    /\ ex[0].pc = "autocommit"
    /\ (ex'[0].pc = "commit" \/ "commit" \in ex'[0].steps)

\* C21: the auto-commit timer fires only when auto_commit is enabled, the
\* interval has elapsed since last_auto_commit, and the poll cycle started no
\* change-triggered run; while a timer-triggered commit executes, no
\* change-triggered run does.
C21_TimerTrigger ==
    [][ /\ TimerFires =>
              /\ auto_commit
              /\ now - last_auto_commit >= AutoCommitTicks
              /\ ex[0].steps = {}
              /\ \A e \in Executors : ~InRun(ex[e])
        /\ (prog \in PollProgs /\ ex'[0].pc = "commit"
            /\ "sync" \notin ex'[0].steps) =>
              \A e \in Threads : ~InRun(ex'[e]) ]_vars

C21_Witness ==
    /\ prog = "AutoPoll"
    /\ auto_commit
    /\ ex[0].steps = {"commit"}
    /\ ex[0].commit.out = "ok"
    /\ last_auto_commit >= AutoCommitTicks

\* C22: the one-shot update mode ends with exit status 1 exactly when the
\* token is missing or the sync failed, and with 0 otherwise.
C22_ExitCode ==
    (prog = "AutoUpdate" /\ ExitStatus(ex[0]) # "running") =>
        (ExitStatus(ex[0]) = "1" <=> (~token \/ ex[0].sync = "failed"))

\* C23: without a token the process has ended with a nonzero status, and it
\* has read no branch head, run no pipeline step and handled no request.
C23_MissingTokenIsFatal ==
    ~token =>
        /\ ExitStatus(ex[0]) = "1"
        /\ cyc.fetch = "none"
        /\ \A e \in Executors : ex[e].steps = {} /\ ~InRun(ex[e])
        /\ reqs = 0

\* C24: a local commit whose push failed stays on the local branch until it
\* is pushed: no step takes it off the branch in any other way.
C24_UnpushedCommitIsKept ==
    [][ (wc.ahead /\ ~wc'.ahead) => remoteHead' = remoteHead + 1 ]_vars

\* The step is a successful sync of a working copy that existed before it.
SyncedExisting ==
    /\ wc.cloned
    /\ \E e \in Executors :
          ex[e].pc = "sync" /\ ex'[e].pc # "sync" /\ ex'[e].sync = "ok"

\* C25: after a successful sync of an existing working copy the tree has no
\* local modifications and the local branch tip is the remote branch tip,
\* also when the local branch had commits of its own.
C25_SyncMatchesRemote ==
    [][ SyncedExisting =>
          (~wc'.dirty /\ wc'.head = remoteHead /\ ~wc'.ahead) ]_vars

\* C26: whenever local_path exists it holds a working copy with the
\* configured branch checked out.
C26_ValidWorkingCopy ==
    wc.dir => (wc.cloned /\ wc.branch = "configured")

\* C27: a request to a path other than the webhook path is answered 404 and
\* starts no run, whatever it carries.
C27_WrongPathIs404 ==
    (http.code # "none" /\ http.req.path # "/webhook") =>
        (http.code = "404" /\ ~http.started)

\* C28: the token is in no line of the log and in no file the program (or
\* the git it runs) wrote.
C28_TokenNeverWritten ==
    /\ \A line \in log : line \in {"WEBHOOK_SECRET not set", "GITHUB_TOKEN not set"}
    /\ token => ~wc.origin_token

\* The place of each step in the order sync, scaffold, build (or post-update
\* actions), docs, commit.
StepRank == [sync |-> 1, scaffold |-> 2, build |-> 3, post |-> 3, todo |-> 4,
             changelog |-> 5, commit |-> 6]

\* C29: the steps a run has executed all come before the step it is at in
\* the order sync, scaffold/build, docs, commit, and a run that began with a
\* sync is at, or past, its commit step only after that sync has returned.
C29_StepOrder ==
    \A e \in Executors :
        /\ InRun(ex[e]) =>
              \A st \in ex[e].steps \cap PipelineSteps :
                  StepRank[st] < StepRank[ex[e].pc]
        /\ (/\ ex[e].pc = "commit" \/ "commit" \in ex[e].steps
            /\ prog \notin {"Poller", "AutoPoll"}) =>
              ("sync" \in ex[e].steps /\ ex[e].sync = "ok")

C29_Witness ==
    /\ prog = "UpdHook"
    /\ ex[1].pc = "commit"
    /\ ex[1].steps = {"sync", "scaffold", "build"}
    /\ "build" \in ex[1].failed

\* C30: with nobody else pushing and nothing failing, the pushes of the
\* polling program do not feed themselves: the run that the detection of its own push starts leaves
\* nothing that is pushed in turn, so the remote branch ends at most one
\* commit above where it started.
C30_OwnPushesDoNotChain == fails = 0 => remoteHead <= 2

\* The request reached the webhook endpoint with a signature header that is
\* missing or that the verifier answers False to.
FailsVerification(p, r) ==
    /\ p = "AutoHook" \/ r.path = "/webhook"
    /\ r.sig \in {"absent", "bad", "otherscheme"}

\* C31 as stated: with a secret, a request that fails the signature check is
\* answered 403 whatever its body is, and starts nothing.
C31_SignatureBeforeParsing ==
    (secret /\ http.code # "none" /\ FailsVerification(prog, http.req)) =>
        (http.code = "403" /\ ~http.started)

\* C31 as amended: the same, except that webhook_handler.py answers an empty
\* body 400 before it looks at the signature (it parses nothing either).
C31_SignatureBeforeParsingNonEmpty ==
    (secret /\ http.code # "none" /\ FailsVerification(prog, http.req)) =>
        /\ ~http.started
        /\ http.code = IF prog = "HookSrv" /\ http.req.body = "empty"
                       THEN "400" ELSE "403"

C31_Witness ==
    /\ secret
    /\ prog = "AutoHook"
    /\ http.req.sig = "bad"
    /\ http.req.body = "bad_json"
    /\ http.code = "403"
    /\ ~http.started

\* C32: with no secret, webhook_handler.py and github_automator.py start a
\* run for every push to the monitored branch that reaches the endpoint,
\* whatever its signature header is.
C32_NoSecretNoSignature ==
    (/\ ~secret
     /\ prog \in {"HookSrv", "AutoHook"}
     /\ http.code # "none"
     /\ prog = "AutoHook" \/ http.req.path = "/webhook"
     /\ http.req.event = "push" /\ http.req.body = "ref_match") =>
        (http.started /\ http.code \in {"pending", "200", "202", "500"})

C32_Witness ==
    /\ ~secret
    /\ prog = "HookSrv"
    /\ http.req = [PlainPush EXCEPT !.sig = "absent"]
    /\ http.started
    /\ ex[0].pc = "sync"

\* C33: in polling_service.py last_auto_commit changes only in an
\* auto_commit_changes whose commit and push both succeeded (auto-commit
\* enabled, interval elapsed), and becomes the time of that call; every
\* other step, and every other outcome of auto_commit_changes, leaves it.
C33_TimerReferenceFrame ==
    [][ prog = "Poller" =>
          IF /\ ex[0].pc = "autocommit"
             /\ ex'[0].commit.out = "ok"
          THEN /\ auto_commit
               /\ now - last_auto_commit >= AutoCommitTicks
               /\ remoteHead' = remoteHead + 1
               /\ last_auto_commit' = now
          ELSE last_auto_commit' = last_auto_commit ]_vars

C33_Witness ==
    /\ prog = "Poller"
    /\ ex[0].pc = "sleep"
    /\ ex[0].commit.failedAt = "push"
    /\ last_auto_commit = 0
    /\ now >= AutoCommitTicks

\* C34: once a ProviderManager exists, the provider name the configuration
\* returns is the name of the provider the manager holds, after every
\* switch_provider call, the refused ones included.
C34_ProviderAgreement ==
    current_provider # "unset" => provider = current_provider

\* The caller of the last call lacks the permission, by the tables of
\* permissions.py.
Lacks(user, permission) == permission \notin roles_permissions(user_roles(user))

C35_Step ==
    /\ (/\ call'.fn \in {"request_action", "approve_action"}
        /\ Lacks(call'.user, "approve_action"))
          => (call'.result = "False" /\ action_requests' = action_requests)
    /\ (/\ call'.fn = "approve_action"
        /\ (call'.arg < 0 \/ call'.arg >= Len(action_requests)))
          => (call'.result = "False" /\ action_requests' = action_requests)
    /\ (call'.fn = "approve_action" /\ call'.result = "True")
          => /\ Len(action_requests') = Len(action_requests)
             /\ \A i \in 1..Len(action_requests) :
                  /\ action_requests'[i].user = action_requests[i].user
                  /\ action_requests'[i].action = action_requests[i].action
                  /\ i # call'.arg + 1 =>
                        action_requests'[i] = action_requests[i]

\* C35: request_action and approve_action by a caller without the
\* approve_action permission, and approve_action with an index outside the
\* queue, return False and leave the queue as it was; an approve_action that
\* returns True changes nothing but the status of the request at the index.
C35_RefusedCallsChangeNothing == [][C35_Step]_vars

\* A caller without the permission was refused while the queue holds an
\* approved and a pending request.
C35_Witness ==
    /\ call.fn = "request_action"
    /\ call.user = "regular_user"
    /\ call.result = "False"
    /\ \E i, j \in 1..Len(action_requests) :
          /\ action_requests[i].status = "approved"
          /\ action_requests[j].status = "pending"

C36_State ==
    \A i \in 1..Len(action_requests) :
        action_requests[i].status \in {"pending", "approved"}

C36_Step ==
    /\ Len(action_requests') >= Len(action_requests)
    /\ \A i \in 1..Len(action_requests) :
          /\ action_requests'[i].user = action_requests[i].user
          /\ action_requests'[i].action = action_requests[i].action
          /\ action_requests[i].status = "approved" =>
                action_requests'[i].status = "approved"
    /\ call'.fn = "get_pending_requests" =>
          call'.result = SelectSeq(action_requests',
                                   LAMBDA req : req.status # "approved")

\* C36: every request in the queue is pending or approved; an approved
\* request stays approved; the queue keeps its requests and their order; and
\* get_pending_requests returns the requests not approved, in queue order.
C36_QueueOnlyGrows == [](C36_State) /\ [][C36_Step]_vars

\* get_pending_requests returned one request of a queue of three, the middle
\* one, the others being approved.
C36_Witness ==
    /\ call.fn = "get_pending_requests"
    /\ Len(action_requests) = 3
    /\ Len(call.result) = 1
    /\ call.result[1] = action_requests[2]

C37_Step ==
    /\ emergency_stopped => emergency_stopped'
    /\ (~emergency_stopped /\ emergency_stopped')
          => /\ call'.fn = "emergency_stop"
             /\ ~Lacks(call'.user, "emergency_stop")
    /\ (call'.fn = "emergency_stop" /\ Lacks(call'.user, "emergency_stop"))
          => /\ call'.result = "False"
             /\ emergency_stopped' = emergency_stopped

\* C37: the emergency-stop flag starts False, becomes True only in an
\* emergency_stop call by a user holding the emergency_stop permission, is
\* left alone by a call of a user without it, which returns False, and once
\* True is True after every later operation.
C37_Latch == ~emergency_stopped /\ [][C37_Step]_vars

\* With the flag set, a user without the permission called emergency_stop
\* and the flag is still set.
C37_Witness ==
    /\ emergency_stopped
    /\ call.fn = "emergency_stop"
    /\ call.user = "regular_user"
    /\ call.result = "False"

====
